---- MODULE Spec2Model ----
(***************************************************************************)
(* sargs (src/src/sargs.h): the flag registry, the Parse scan and its      *)
(* post-pass validation, alias backfill, fallback values and the           *)
(* presence / string accessors of class sargs::Args.                       *)
(*                                                                         *)
(* A std::string is a sequence of one-character strings.  The value store  *)
(* _arguments (std::map<string,string>) is a function whose domain is the  *)
(* set of keys.  A diagnostic is the sequence made of its literal text     *)
(* followed by the characters of the name appended to it; the empty        *)
(* sequence is the empty diagnostic.                                       *)
(*                                                                         *)
(* _binary is argv[0] of the running Initialize.  Printing (PrintUsage to   *)
(* std::cout) is not part of the state.  Declarations are made before      *)
(* Initialize, as the registry is documented to be used, and no spelling   *)
(* is declared twice.                                                      *)
(***************************************************************************)
EXTENDS Integers, Sequences, FiniteSets, TLC

\* ------------------------------------------------------------------ bounds
\* most tokens after argv[0]
MaxArgs == 2
\* most declarations made by the caller (the built-in help flag is extra)
MaxFlags == 1
\* largest count given to RequireNonFlags
MaxNonFlags == 1
\* most Initialize calls on one engine (SpecReinit)
MaxPasses == 2
\* longest description given to FormatDescription and largest _desc_width
\* (SpecWrap)
MaxDescription == 5
MaxWidth == 3

\* ----------------------------------------------------------------- strings
EmptyStr == <<>>
Delimiter == <<"-", "-">>
HelpFlag == <<"-", "-", "h", "e", "l", "p">>
HelpAlias == <<"-", "h">>
FlagA == <<"-", "-", "a">>
AliasA == <<"-", "a">>
ValueX == <<"x">>
FallbackD == <<"d">>
Binary == <<"p">>
\* the description text of the caller's declarations
Description == <<"d">>
\* "Print usage and options information"
HelpDescription ==
  <<"P", "r", "i", "n", "t", " ", "u", "s", "a", "g", "e", " ", "a", "n", "d",
    " ", "o", "p", "t", "i", "o", "n", "s", " ", "i", "n", "f", "o", "r",
    "m", "a", "t", "i", "o", "n">>

\* the (flag, alias) pairs a declaration call may be given
SpellingPairs == { <<FlagA, AliasA>>, <<FlagA, EmptyStr>>, <<EmptyStr, AliasA>> }
\* the fallback strings a value declaration may be given
Fallbacks == { EmptyStr, FallbackD }
\* the tokens a command line is made of
Tokens == { Delimiter, FlagA, AliasA, HelpAlias, ValueX, EmptyStr,
            FlagA \o <<"=">> \o ValueX, FlagA \o <<"=">> }
\* the command lines: argv[0] and at most MaxArgs tokens
ArgvSet == { <<Binary>> \o t : t \in UNION { [1..n -> Tokens] : n \in 0..MaxArgs } }

Min(S) == CHOOSE x \in S : \A y \in S : x <= y

\* std::string::npos
npos == -1

\* std::string::find_first_of(c): 0-based position of the first c, or npos
find_first_of(s, c) ==
  IF \E k \in 1..Len(s) : s[k] = c
  THEN Min({k \in 1..Len(s) : s[k] = c}) - 1
  ELSE npos

\* std::string::substr(pos, n) with n = npos meaning "to the end"
substr(s, pos, n) ==
  IF n = npos \/ pos + n > Len(s) THEN SubSeq(s, pos + 1, Len(s))
  ELSE SubSeq(s, pos + 1, pos + n)

Digits == <<"0", "1", "2", "3", "4", "5", "6", "7", "8", "9">>

\* std::to_string of a non-negative integer
RECURSIVE to_string(_)
to_string(n) ==
  IF n < 10 THEN <<Digits[n + 1]>>
  ELSE to_string(n \div 10) \o <<Digits[(n % 10) + 1]>>

\* std::map operator[] assignment
MapPut(m, k, v) == [x \in (DOMAIN m) \cup {k} |-> IF x = k THEN v ELSE m[x]]
EmptyMap == [x \in {} |-> EmptyStr]

\* ------------------------------------------------------------------- state
VARIABLES
  required,           \* _required: sequence of Argument
  optional,           \* _optional: sequence of Argument
  arguments,          \* _arguments: the value store
  nonflags,           \* _nonflags: the positional tokens
  nonflags_required,  \* _nonflags_required
  help_enabled,       \* _help_enabled
  exit_enabled,       \* _exit_enabled
  argv,               \* the argv of the running Initialize (argv[1] is C's argv[0])
  pc,                 \* "declare", "scan" (in Parse's loop), "parsed" (Parse returned),
                      \* "done" (Initialize returned), "exited" (exit() was called)
  i,                  \* Parse's loop index (C's 0-based i)
  flags_encountered,  \* Parse's local
  delim_encountered,  \* Parse's local
  result,             \* the diagnostic Parse returned
  passes,             \* number of Initialize calls so far
  preamble,           \* _preamble
  flag_description,   \* _flag_description
  epilogue,           \* _epilogue
  exceptions_enabled, \* _exceptions_enabled
  errno,              \* the C library's errno
  call,               \* the last accessor call and what it gave its caller
  wrap                \* the running FormatDescription call: its argument, its
                      \* locals and its stream

\* the usage text blocks
usageVars == << preamble, flag_description, epilogue, wrap >>
\* what the typed accessors read and write besides the value store
accessVars == << exceptions_enabled, errno, call >>

vars == << required, optional, arguments, nonflags, nonflags_required, help_enabled,
           exit_enabled, argv, pc, i, flags_encountered, delim_encountered, result,
           passes, usageVars, accessVars >>

\* a number: its sign and the decimal digits of its magnitude, most significant
\* first (<<0>> is zero); no digits at all stands for "no number"
Number(neg, mag) == [neg |-> neg, mag |-> mag]
NoNumber == Number(FALSE, <<>>)
Zero == Number(FALSE, <<0>>)

\* what an accessor call gave its caller: the accessor and the flag queried,
\* whether SargsError was raised, the bool a two-argument form returned (TRUE
\* for a one-argument form that returned), and the number returned or written
\* to the out-parameter (NoNumber when none was)
CallRecord(op, flag, raised, ok, value, text) ==
  [op |-> op, flag |-> flag, raised |-> raised, ok |-> ok, value |-> value,
   text |-> text]
\* no FormatDescription call is running
NoWrap == [at |-> "idle"]

\* no accessor has been called yet
NoCall == CallRecord("none", EmptyStr, FALSE, FALSE, NoNumber, EmptyStr)

\* struct Argument
Argument(flag, alias, description, value, fallback) ==
  [flag |-> flag, alias |-> alias, description |-> description, value |-> value,
   fallback |-> fallback]

argc == Len(argv)
\* C's argv[k]
Arg(k) == argv[k + 1]

\* ------------------------------------------------------- token classifier
\* first declaration, required before optional, one of whose spellings is flag
FirstMatch(req, opt, flag) ==
  LET all == req \o opt
      hits == {k \in 1..Len(all) : flag = all[k].flag \/ flag = all[k].alias}
  IN IF hits = {} THEN 0 ELSE Min(hits)

CheckIfNonValueFlag(req, opt, flag) ==
  LET k == FirstMatch(req, opt, flag)
  IN IF k = 0 THEN FALSE ELSE ~(req \o opt)[k].value

CheckIfValueFlag(req, opt, flag) ==
  LET k == FirstMatch(req, opt, flag)
  IN IF k = 0 THEN FALSE ELSE (req \o opt)[k].value

TryFlagValueSplit_keepsep(req, opt, arg) ==
  LET pos == find_first_of(arg, "=")
      current_flag == substr(arg, 0, pos)
  IN IF pos # npos /\ CheckIfValueFlag(req, opt, current_flag)
     THEN [ok |-> TRUE, first |-> current_flag, second |-> substr(arg, pos, npos)]
     ELSE [ok |-> FALSE, first |-> EmptyStr, second |-> EmptyStr]

\* [ok, first, second]: the flag_value pair is written only when ok
TryFlagValueSplit(req, opt, arg) ==
  LET pos == find_first_of(arg, "=")
      current_flag == substr(arg, 0, pos)
      has_separator == pos # npos
      is_expected == CheckIfValueFlag(req, opt, current_flag)
  IN IF has_separator /\ is_expected
     THEN [ok |-> TRUE, first |-> current_flag, second |-> substr(arg, pos + 1, npos)]
     ELSE [ok |-> FALSE, first |-> EmptyStr, second |-> EmptyStr]

\* ------------------------------------------------------------ Parse: scan
\* the state of Parse's loop
ScanState(args, nf, idx, fe, delim, returned, res) ==
  [arguments |-> args, nonflags |-> nf, i |-> idx, flags_encountered |-> fe,
   delim_encountered |-> delim, returned |-> returned, result |-> res]

\* the state on entry to the loop, the store and positionals being what they are
ScanEntry(args, nf) == ScanState(args, nf, 1, 0, FALSE, FALSE, EmptyStr)

total_flags(req, opt) == Len(req) + Len(opt)

AllFlagsEncountered_strict(fe, total) == fe > total

\* the test that switches the loop to positional-only after a flag is consumed
AllFlagsEncountered(fe, total) == fe >= total

\* which branch of the loop body the token at s.i takes
ScanBranch(req, opt, av, s) ==
  LET current == av[s.i + 1]
  IN IF current = Delimiter THEN "delimiter"
     ELSE IF s.delim_encountered THEN "explicit_nonflag"
     ELSE IF CheckIfNonValueFlag(req, opt, current) THEN "nonvalue_flag"
     ELSE IF CheckIfValueFlag(req, opt, current)
          THEN (IF s.i + 1 = Len(av) THEN "value_missing" ELSE "value_flag")
     ELSE IF TryFlagValueSplit(req, opt, current).ok THEN "flag_value_split"
     ELSE "nonflag"

ScanStep_dropnonflag(req, opt, av, s) ==
  LET current == av[s.i + 1]
      branch == ScanBranch(req, opt, av, s)
      fe1 == s.flags_encountered + 1
      delim1 == IF AllFlagsEncountered(fe1, total_flags(req, opt))
                THEN TRUE ELSE s.delim_encountered
      fv == TryFlagValueSplit(req, opt, current)
  IN CASE branch = "delimiter" ->
            [s EXCEPT !.delim_encountered = TRUE, !.i = s.i + 1]
       [] branch = "explicit_nonflag" ->
            [s EXCEPT !.nonflags = Append(s.nonflags, current), !.i = s.i + 1]
       [] branch = "nonvalue_flag" ->
            [s EXCEPT !.arguments = MapPut(s.arguments, current, EmptyStr),
                      !.flags_encountered = fe1, !.delim_encountered = delim1,
                      !.i = s.i + 1]
       [] branch = "value_missing" ->
            [s EXCEPT !.returned = TRUE,
                      !.result = <<"Must set value for ">> \o current]
       [] branch = "value_flag" ->
            [s EXCEPT !.arguments = MapPut(s.arguments, current, av[s.i + 2]),
                      !.flags_encountered = fe1, !.delim_encountered = delim1,
                      !.i = s.i + 2]
       [] branch = "flag_value_split" ->
            [s EXCEPT !.arguments = MapPut(s.arguments, fv.first, fv.second),
                      !.flags_encountered = fe1, !.delim_encountered = delim1,
                      !.i = s.i + 1]
       [] OTHER ->
            [s EXCEPT !.i = s.i + 1]

\* one pass of the loop body, the ++i of the for statement included
ScanStep(req, opt, av, s) ==
  LET current == av[s.i + 1]
      branch == ScanBranch(req, opt, av, s)
      fe1 == s.flags_encountered + 1
      delim1 == IF AllFlagsEncountered(fe1, total_flags(req, opt))
                THEN TRUE ELSE s.delim_encountered
      fv == TryFlagValueSplit(req, opt, current)
  IN CASE branch = "delimiter" ->
            [s EXCEPT !.delim_encountered = TRUE, !.i = s.i + 1]
       [] branch = "explicit_nonflag" ->
            [s EXCEPT !.nonflags = Append(s.nonflags, current), !.i = s.i + 1]
       [] branch = "nonvalue_flag" ->
            [s EXCEPT !.arguments = MapPut(s.arguments, current, EmptyStr),
                      !.flags_encountered = fe1, !.delim_encountered = delim1,
                      !.i = s.i + 1]
       [] branch = "value_missing" ->
            [s EXCEPT !.returned = TRUE,
                      !.result = <<"Must set value for ">> \o current]
       [] branch = "value_flag" ->
            [s EXCEPT !.arguments = MapPut(s.arguments, current, av[s.i + 2]),
                      !.flags_encountered = fe1, !.delim_encountered = delim1,
                      !.i = s.i + 2]
       [] branch = "flag_value_split" ->
            [s EXCEPT !.arguments = MapPut(s.arguments, fv.first, fv.second),
                      !.flags_encountered = fe1, !.delim_encountered = delim1,
                      !.i = s.i + 1]
       [] OTHER ->
            [s EXCEPT !.nonflags = Append(s.nonflags, current), !.i = s.i + 1]

\* the loop run from s until index stop is reached or passed, or Parse returns
RECURSIVE ScanTo(_, _, _, _, _)
ScanTo(req, opt, av, s, stop) ==
  IF s.returned \/ s.i >= stop THEN s
  ELSE ScanTo(req, opt, av, ScanStep(req, opt, av, s), stop)

\* ------------------------------------------------- Parse: post-pass checks
RECURSIVE CheckForMissingFrom(_, _, _)
CheckForMissingFrom(to_check, k, args) ==
  IF k > Len(to_check) THEN EmptyStr
  ELSE LET iter == to_check[k]
       IN IF iter.flag \notin DOMAIN args /\ iter.alias \notin DOMAIN args
          THEN (IF iter.flag # EmptyStr
                THEN <<"Must specify ">> \o iter.flag
                ELSE <<"Must specify ">> \o iter.alias)
          ELSE CheckForMissingFrom(to_check, k + 1, args)

CheckForMissing_skipfirst(to_check, args) == CheckForMissingFrom(to_check, 2, args)

CheckForMissing(to_check, args) == CheckForMissingFrom(to_check, 1, args)

\* the value check of one declaration and its alias copy:
\* [arguments, result], result non-empty when CheckForValues returns at iter
CheckForValuesOne(iter, args) ==
  IF iter.flag \in DOMAIN args /\ iter.alias # EmptyStr
  THEN IF iter.value /\ args[iter.flag] = EmptyStr
       THEN [arguments |-> args, result |-> <<"Must specify value for ">> \o iter.flag]
       ELSE [arguments |-> MapPut(args, iter.alias, args[iter.flag]), result |-> EmptyStr]
  ELSE IF iter.alias \in DOMAIN args /\ args[iter.alias] # EmptyStr
  THEN IF iter.value /\ args[iter.alias] = EmptyStr
       THEN [arguments |-> args, result |-> <<"Must specify value for ">> \o iter.alias]
       ELSE [arguments |-> MapPut(args, iter.flag, args[iter.alias]), result |-> EmptyStr]
  ELSE [arguments |-> args, result |-> EmptyStr]

RECURSIVE CheckForValuesFrom(_, _, _)
CheckForValuesFrom(to_check, k, args) ==
  IF k > Len(to_check) THEN [arguments |-> args, result |-> EmptyStr]
  ELSE LET one == CheckForValuesOne(to_check[k], args)
       IN IF one.result # EmptyStr THEN one
          ELSE CheckForValuesFrom(to_check, k + 1, one.arguments)

CheckForValues(to_check, args) == CheckForValuesFrom(to_check, 1, args)

ParsePostPass_atleast(req, opt, nreq, args, nf) ==
  IF Len(nf) < nreq
  THEN [arguments |-> args,
        result |-> <<"Unknown arguments or user must specify ">> \o to_string(nreq)
                     \o <<" non-flags">>]
  ELSE LET r1 == CheckForValues(req, args)
           r2 == IF r1.result = EmptyStr THEN CheckForValues(opt, r1.arguments) ELSE r1
       IN IF r2.result = EmptyStr
          THEN [arguments |-> r2.arguments, result |-> CheckForMissing(req, r2.arguments)]
          ELSE r2

\* the statements of Parse after the loop: [arguments, result]
ParsePostPass(req, opt, nreq, args, nf) ==
  IF Len(nf) # nreq /\ nreq = 0
  THEN [arguments |-> args, result |-> <<"Unknown arguments">>]
  ELSE IF Len(nf) # nreq
  THEN [arguments |-> args,
        result |-> <<"Unknown arguments or user must specify ">> \o to_string(nreq)
                     \o <<" non-flags">>]
  ELSE LET r1 == CheckForValues(req, args)
           r2 == IF r1.result = EmptyStr THEN CheckForValues(opt, r1.arguments) ELSE r1
       IN IF r2.result = EmptyStr
          THEN [arguments |-> r2.arguments, result |-> CheckForMissing(req, r2.arguments)]
          ELSE r2

\* --------------------------------------------------------- fallback values
AddFallbackOne_flagonly(iter, args) ==
  IF iter.flag \notin DOMAIN args /\ iter.fallback # EmptyStr
  THEN MapPut(args, iter.flag, iter.fallback) ELSE args

\* the two insertions AddFallbackValues makes for one declaration
AddFallbackOne(iter, args) ==
  LET a1 == IF iter.flag \notin DOMAIN args /\ iter.fallback # EmptyStr
            THEN MapPut(args, iter.flag, iter.fallback) ELSE args
  IN IF iter.alias \notin DOMAIN a1 /\ iter.fallback # EmptyStr
     THEN MapPut(a1, iter.alias, iter.fallback) ELSE a1

RECURSIVE AddFallbackFrom(_, _, _)
AddFallbackFrom(list, k, args) ==
  IF k > Len(list) THEN args
  ELSE AddFallbackFrom(list, k + 1, AddFallbackOne(list[k], args))

\* optional declarations first, then required ones
AddFallbackValues(req, opt, args) ==
  AddFallbackFrom(req, 1, AddFallbackFrom(opt, 1, args))

\* --------------------------------------------------------------- accessors
FindAlternative(req, opt, flag) ==
  LET k == FirstMatch(req, opt, flag)
      iter == (req \o opt)[k]
  IN IF k = 0 THEN EmptyStr
     ELSE IF iter.flag = flag THEN iter.alias ELSE iter.flag

Has(req, opt, args, flag) ==
  LET alternative == FindAlternative(req, opt, flag)
  IN \E key \in DOMAIN args : key = flag \/ key = alternative

\* the two-argument GetAsString for a non-empty flag: [found, value]; value is
\* the out-parameter, left as the caller's empty string when nothing is found
GetAsString(args, flag) ==
  IF flag \in DOMAIN args
  THEN [found |-> TRUE, value |-> args[flag]]
  ELSE [found |-> FALSE, value |-> EmptyStr]

\* ------------------------------------------- the texts given to --a and --b
FlagB == <<"-", "-", "b">>
Text100 == <<"1", "0", "0">>
\* the texts a command line gives to --a
NumberTexts ==
  { <<"2", "5", "5">>,
    <<"2", "5", "6">>,
    <<"3", "0", "0">>,
    <<"6", "5", "5", "3", "5">>,
    <<"6", "5", "5", "3", "6">>,
    <<"4", "2", "9", "4", "9", "6", "7", "2", "9", "5">>,
    <<"4", "2", "9", "4", "9", "6", "7", "2", "9", "6">>,
    <<"1", "8", "4", "4", "6", "7", "4", "4", "0", "7", "3", "7", "0", "9", "5", "5", "1", "6", "1", "5">>,
    <<"1", "8", "4", "4", "6", "7", "4", "4", "0", "7", "3", "7", "0", "9", "5", "5", "1", "6", "1", "6">>,
    <<"9", "2", "2", "3", "3", "7", "2", "0", "3", "6", "8", "5", "4", "7", "7", "5", "8", "0", "7">>,
    <<"9", "2", "2", "3", "3", "7", "2", "0", "3", "6", "8", "5", "4", "7", "7", "5", "8", "0", "8">>,
    <<"-", "1">>,
    <<"1", "2", "7">>,
    <<"1", "2", "8">>,
    <<"-", "1", "2", "8">>,
    <<"-", "1", "2", "9">>,
    <<"-", "3", "2", "7", "6", "9">>,
    <<"-", "2", "1", "4", "7", "4", "8", "3", "6", "4", "9">>,
    <<"0", "1", "0">>,
    <<"0", "x", "1", "0">>,
    <<" ", "7">>,
    <<"1", "2", "a", "b", "c">>,
    <<"a", "b", "c">>,
    <<>>,
    <<"1", "0", "0", "0", "0", "0", "0", "0", "0", "0", "0", "0", "0", "0", "0", "0", "0", "0", "0", "0", "0", "0", "0", "0", "0", "0", "0", "0", "0", "0", "0", "0", "0", "0", "0", "0", "0", "0", "0", "0">> }

\* ------------------------------------------------------------- conversions
\* <cerrno> ERANGE
ERANGE == 34

\* numeric_limits<uintN_t>::max(), numeric_limits<intN_t>::max() and the
\* magnitude of numeric_limits<intN_t>::min(), as decimal digits
UInt8Max == <<2, 5, 5>>
UInt16Max == <<6, 5, 5, 3, 5>>
UInt32Max == <<4, 2, 9, 4, 9, 6, 7, 2, 9, 5>>
UInt32Min == <<0>>
ULONG_MAX == <<1, 8, 4, 4, 6, 7, 4, 4, 0, 7, 3, 7, 0, 9, 5, 5, 1, 6, 1, 5>>
Int8Max == <<1, 2, 7>>
Int8MinMag == <<1, 2, 8>>
Int16Max == <<3, 2, 7, 6, 7>>
Int16MinMag == <<3, 2, 7, 6, 8>>
Int32Max == <<2, 1, 4, 7, 4, 8, 3, 6, 4, 7>>
Int32MinMag == <<2, 1, 4, 7, 4, 8, 3, 6, 4, 8>>
LONG_MAX == <<9, 2, 2, 3, 3, 7, 2, 0, 3, 6, 8, 5, 4, 7, 7, 5, 8, 0, 7>>
\* 2^128 - 2^103: the least magnitude that rounds beyond FLT_MAX
FloatOverflow ==
  <<3, 4, 0, 2, 8, 2, 3, 5, 6, 7, 7, 9, 7, 3, 3, 6, 6, 1, 6, 3, 7, 5, 3, 9, 3, 9, 5, 4, 5, 8, 1, 4, 2, 5, 6, 8, 4, 4, 8>>

RECURSIVE StripZeros(_)
\* the digits without leading zeros
StripZeros(d) == IF Len(d) > 1 /\ d[1] = 0 THEN StripZeros(Tail(d)) ELSE d

\* a < b, for digits without leading zeros
BigLess(a, b) ==
  \/ Len(a) < Len(b)
  \/ /\ Len(a) = Len(b)
     /\ \E k \in 1..Len(a) : a[k] < b[k] /\ \A j \in 1..(k - 1) : a[j] = b[j]

RECURSIVE MulAddFrom(_, _, _, _)
MulAddFrom(a, k, m, carry) ==
  IF k = 0 THEN (IF carry >= 10 THEN <<carry \div 10, carry % 10>> ELSE <<carry>>)
  ELSE LET t == a[k] * m + carry
       IN MulAddFrom(a, k - 1, m, t \div 10) \o <<t % 10>>

\* a * m + c, for m <= 16 and c < 16
MulAdd(a, m, c) == StripZeros(MulAddFrom(a, Len(a), m, c))

RECURSIVE SubFrom(_, _, _, _)
SubFrom(a, b, k, borrow) ==
  IF k = 0 THEN <<>>
  ELSE LET j == k - (Len(a) - Len(b))
           t == a[k] - (IF j >= 1 THEN b[j] ELSE 0) - borrow
       IN SubFrom(a, b, k - 1, IF t < 0 THEN 1 ELSE 0) \o <<IF t < 0 THEN t + 10 ELSE t>>

\* a - b, for a >= b
BigSub(a, b) == StripZeros(SubFrom(a, b, Len(a), 0))

\* the value of a digit character in a base up to 16; 16 for any other character
DigitValue(c) ==
  CASE c = "0" -> 0 [] c = "1" -> 1 [] c = "2" -> 2 [] c = "3" -> 3 [] c = "4" -> 4
    [] c = "5" -> 5 [] c = "6" -> 6 [] c = "7" -> 7 [] c = "8" -> 8 [] c = "9" -> 9
    [] c \in {"a", "A"} -> 10 [] c \in {"b", "B"} -> 11 [] c \in {"c", "C"} -> 12
    [] c \in {"d", "D"} -> 13 [] c \in {"e", "E"} -> 14 [] c \in {"f", "F"} -> 15
    [] OTHER -> 16

isspace(c) == c \in {" ", "\t", "\n", "\r", "\f"}

RECURSIVE SkipSpace(_)
SkipSpace(s) == IF s # <<>> /\ isspace(s[1]) THEN SkipSpace(Tail(s)) ELSE s

\* the number of leading characters of s that are digits of the base
DigitPrefix(s, base) ==
  Min({ k \in 1..Len(s) : DigitValue(s[k]) >= base } \cup { Len(s) + 1 }) - 1

RECURSIVE ValueOf(_, _, _)
\* the value of the first n characters of s, digits of the base
ValueOf(s, n, base) ==
  IF n = 0 THEN <<0>>
  ELSE MulAdd(ValueOf(s, n - 1, base), base, DigitValue(s[n]))

\* the value of the first n characters of s, digits of the base; in base 10
\* the digits read are the digits of the value
ValueOfPrefix(s, n, base) ==
  IF n = 0 THEN <<0>>
  ELSE IF base = 10 THEN StripZeros([k \in 1..n |-> DigitValue(s[k])])
  ELSE ValueOf(s, n, base)

\* the value of the longest prefix of s made of digits of the base, zero when
\* there is none
ParseDigits(s, base) == ValueOfPrefix(s, DigitPrefix(s, base), base)

\* the subject sequence of a conversion is white space, an optional sign, an
\* optional 0x, then digits; s0 is the text after its white space and s1 the
\* text after its sign
IsNegative(s0) == s0 # <<>> /\ s0[1] = "-"
AfterSign(s0) == IF s0 # <<>> /\ s0[1] \in {"-", "+"} THEN Tail(s0) ELSE s0
HasHexPrefix(s1) ==
  Len(s1) >= 3 /\ s1[1] = "0" /\ s1[2] \in {"x", "X"} /\ DigitValue(s1[3]) < 16
\* octal is the base of a leading 0 when the conversion detects the base
BaseOf(s1, detect_octal) ==
  IF HasHexPrefix(s1) THEN 16
  ELSE IF detect_octal /\ s1 # <<>> /\ s1[1] = "0" THEN 8 ELSE 10
Magnitude(s1, detect_octal) ==
  ParseDigits(IF HasHexPrefix(s1) THEN SubSeq(s1, 3, Len(s1)) ELSE s1,
              BaseOf(s1, detect_octal))

\* the number a text begins with: [neg, mag], mag zero when there is no digit
SubjectSequence(text, detect_octal) ==
  [neg |-> IsNegative(SkipSpace(text)),
   mag |-> Magnitude(AfterSign(SkipSpace(text)), detect_octal)]

\* the unsigned long of the number p: [value, erange]
ToUnsignedLong(p) ==
  IF BigLess(ULONG_MAX, p.mag)
  THEN [value |-> Number(FALSE, ULONG_MAX), erange |-> TRUE]
  ELSE [value |-> Number(FALSE, IF p.neg /\ p.mag # <<0>>
                                THEN BigSub(MulAdd(ULONG_MAX, 1, 1), p.mag)
                                ELSE p.mag),
        erange |-> FALSE]

\* std::strtoul(text, nullptr, 0) with a 64-bit unsigned long: [value, erange]
strtoul(text) == ToUnsignedLong(SubjectSequence(text, TRUE))

\* the long of the number p: [value, erange]
ToLong(p) ==
  IF ~p.neg /\ BigLess(LONG_MAX, p.mag)
  THEN [value |-> Number(FALSE, LONG_MAX), erange |-> TRUE]
  ELSE IF p.neg /\ BigLess(MulAdd(LONG_MAX, 1, 1), p.mag)
  THEN [value |-> Number(TRUE, MulAdd(LONG_MAX, 1, 1)), erange |-> TRUE]
  ELSE [value |-> Number(p.neg /\ p.mag # <<0>>, p.mag), erange |-> FALSE]

\* std::strtol(text, nullptr, 0) with a 64-bit long: [value, erange]
strtol(text) == ToLong(SubjectSequence(text, TRUE))

\* the float nearest to a number
FloatOf(n) == [nearest_float_to |-> n]

\* the float of the number p: [value, erange]
ToFloat(p) ==
  IF BigLess(p.mag, FloatOverflow)
  THEN [value |-> FloatOf(Number(p.neg, p.mag)), erange |-> FALSE]
  ELSE [value |-> FloatOf(NoNumber), erange |-> TRUE]

\* std::strtof(text, nullptr) of a text whose number is an integer (no
\* fraction, no exponent), as every stored text here is: [value, erange]
strtof(text) == ToFloat(SubjectSequence(text, FALSE))

\* strtoul, strtol and strtof of each text a command line stores, computed
\* once
Conversions ==
  { [text |-> t, strtoul |-> strtoul(t), strtol |-> strtol(t), strtof |-> strtof(t)] :
      t \in NumberTexts \cup {Text100} }
Converted(text) == CHOOSE c \in Conversions : c.text = text

\* value > max and value < min for a number and the digits of a limit
Above(value, max) == ~value.neg /\ BigLess(max, value.mag)
Below(value, min_mag) == value.neg /\ BigLess(min_mag, value.mag)

\* ------------------------------------------------------- typed accessors
\* what a call gives: whether SargsError is thrown, the bool returned (TRUE
\* for a one-argument form that returns), the number returned or written to
\* the out-parameter, the string likewise, and errno after the call
Outcome(raised, ok, value, text, err) ==
  [raised |-> raised, ok |-> ok, value |-> value, text |-> text, errno |-> err]
Throws(err) == Outcome(TRUE, FALSE, NoNumber, EmptyStr, err)
ReturnsFalse(err) == Outcome(FALSE, FALSE, NoNumber, EmptyStr, err)
Gives(value, err) == Outcome(FALSE, TRUE, value, EmptyStr, err)

\* throw when exceptions are enabled, else the other outcome
ThrowOr(exc, other) == IF exc THEN Throws(other.errno) ELSE other

\* errno once a conversion c has run: set on a range error, else left as it was
ErrnoAfter(c, err) == IF c.erange THEN ERANGE ELSE err

\* bool GetAsString(flag, value): the exceptions toggle and the empty query,
\* then the lookup
GetAsStringQuery(args, exc, err, flag) ==
  IF flag = EmptyStr THEN ThrowOr(exc, ReturnsFalse(err))
  ELSE IF GetAsString(args, flag).found
  THEN Outcome(FALSE, TRUE, NoNumber, GetAsString(args, flag).value, err)
  ELSE ReturnsFalse(err)

\* std::string GetAsString(flag)
GetAsStringValue(args, exc, err, flag) ==
  LET Value(r) == IF r.raised THEN r
                  ELSE Outcome(FALSE, TRUE, NoNumber, IF r.ok THEN r.text ELSE EmptyStr, err)
  IN Value(GetAsStringQuery(args, exc, err, flag))

\* bool GetAsFloat(flag, value)
GetAsFloat(args, exc, err, flag) ==
  LET Convert(c) == IF ErrnoAfter(c, err) = ERANGE THEN Throws(ErrnoAfter(c, err))
                    ELSE Gives(c.value, ErrnoAfter(c, err))
  IN IF flag = EmptyStr THEN ThrowOr(exc, ReturnsFalse(err))
     ELSE IF flag \notin DOMAIN args THEN ReturnsFalse(err)
     ELSE Convert(Converted(args[flag]).strtof)

\* float GetAsFloat(flag)
GetAsFloatValue(args, exc, err, flag) ==
  LET Value(r) == IF r.raised THEN r
                  ELSE IF ~r.ok THEN Gives(FloatOf(Zero), r.errno)
                  ELSE r
  IN Value(GetAsFloat(args, exc, err, flag))

\* bool GetAsUInt64(flag, value)
GetAsUInt64(args, exc, err, flag) ==
  LET Convert(c) == IF ErrnoAfter(c, err) = ERANGE
                    THEN ThrowOr(exc, ReturnsFalse(ErrnoAfter(c, err)))
                    ELSE Gives(c.value, ErrnoAfter(c, err))
  IN IF flag = EmptyStr THEN ThrowOr(exc, ReturnsFalse(err))
     ELSE IF flag \notin DOMAIN args THEN ReturnsFalse(err)
     ELSE Convert(Converted(args[flag]).strtoul)

\* uint64_t GetAsUInt64(flag)
GetAsUInt64Value(args, exc, err, flag) ==
  LET Value(r) == IF r.raised THEN r
                  ELSE IF ~r.ok THEN ThrowOr(exc, Gives(Zero, r.errno))
                  ELSE r
  IN Value(GetAsUInt64(args, exc, err, flag))

GetAsUInt32(args, exc, err, flag) ==
  LET Value(r) == IF r.raised THEN r
                  ELSE IF ~r.ok THEN ThrowOr(exc, Gives(Zero, r.errno))
                  ELSE IF Above(r.value, UInt32Max) THEN ThrowOr(exc, Gives(Zero, r.errno))
                  ELSE IF BigLess(r.value.mag, UInt32Min)
                  THEN ThrowOr(exc, Gives(Zero, r.errno))
                  ELSE r
  IN Value(GetAsUInt64(args, exc, err, flag))

GetAsUInt16(args, exc, err, flag) ==
  LET Value(r) == IF r.raised THEN r
                  ELSE IF ~r.ok THEN ThrowOr(exc, Gives(Zero, r.errno))
                  ELSE IF Above(r.value, UInt16Max) THEN ThrowOr(exc, Gives(Zero, r.errno))
                  ELSE r
  IN Value(GetAsUInt64(args, exc, err, flag))

GetAsUInt8(args, exc, err, flag) ==
  LET Value(r) == IF r.raised THEN r
                  ELSE IF ~r.ok THEN ThrowOr(exc, Gives(Zero, r.errno))
                  ELSE IF Above(r.value, UInt8Max) THEN ThrowOr(exc, Gives(Zero, r.errno))
                  ELSE r
  IN Value(GetAsUInt64(args, exc, err, flag))

\* bool GetAsInt64(flag, value)
GetAsInt64(args, exc, err, flag) ==
  LET Convert(c) == IF ErrnoAfter(c, err) = ERANGE
                    THEN ThrowOr(exc, ReturnsFalse(ErrnoAfter(c, err)))
                    ELSE Gives(c.value, ErrnoAfter(c, err))
  IN IF flag = EmptyStr THEN ThrowOr(exc, ReturnsFalse(err))
     ELSE IF flag \notin DOMAIN args THEN ReturnsFalse(err)
     ELSE Convert(Converted(args[flag]).strtol)

\* int64_t GetAsInt64(flag)
GetAsInt64Value(args, exc, err, flag) ==
  LET Value(r) == IF r.raised THEN r
                  ELSE IF ~r.ok THEN ThrowOr(exc, Gives(Zero, r.errno))
                  ELSE r
  IN Value(GetAsInt64(args, exc, err, flag))

GetAsInt32(args, exc, err, flag) ==
  LET Value(r) == IF r.raised THEN r
                  ELSE IF ~r.ok THEN ThrowOr(exc, Gives(Zero, r.errno))
                  ELSE IF Above(r.value, Int32Max) THEN ThrowOr(exc, Gives(Zero, r.errno))
                  ELSE IF Below(r.value, Int32MinMag) THEN ThrowOr(exc, Gives(Zero, r.errno))
                  ELSE r
  IN Value(GetAsInt64(args, exc, err, flag))

GetAsInt16(args, exc, err, flag) ==
  LET Value(r) == IF r.raised THEN r
                  ELSE IF ~r.ok THEN ThrowOr(exc, Gives(Zero, r.errno))
                  ELSE IF Above(r.value, Int16Max) THEN ThrowOr(exc, Gives(Zero, r.errno))
                  ELSE IF Below(r.value, Int16MinMag) THEN ThrowOr(exc, Gives(Zero, r.errno))
                  ELSE r
  IN Value(GetAsInt64(args, exc, err, flag))

GetAsInt8(args, exc, err, flag) ==
  LET Value(r) == IF r.raised THEN r
                  ELSE IF ~r.ok THEN ThrowOr(exc, Gives(Zero, r.errno))
                  ELSE IF Above(r.value, Int8Max) THEN ThrowOr(exc, Gives(Zero, r.errno))
                  ELSE IF Below(r.value, Int8MinMag) THEN ThrowOr(exc, Gives(Zero, r.errno))
                  ELSE r
  IN Value(GetAsInt64(args, exc, err, flag))

\* ------------------------------------------------------------- usage text
\* _desc_start
desc_start == 30
\* _desc_width
desc_width == 50

\* std::left << std::setw(w) << s
PadRight(s, w) ==
  IF Len(s) >= w THEN s ELSE s \o [k \in 1..(w - Len(s)) |-> " "]

\* "=value" for a declaration that takes a value
ValueSuffix(value) == IF value THEN <<"=", "v", "a", "l", "u", "e">> ELSE EmptyStr

\* std::isalpha and std::isblank in the "C" locale
Letters ==
  {"a", "b", "c", "d", "e", "f", "g", "h", "i", "j", "k", "l", "m", "n", "o", "p", "q",
   "r", "s", "t", "u", "v", "w", "x", "y", "z", "A", "B", "C", "D", "E", "F", "G", "H",
   "I", "J", "K", "L", "M", "N", "O", "P", "Q", "R", "S", "T", "U", "V", "W", "X", "Y",
   "Z"}
isalpha(c) == c \in Letters
isblank(c) == c \in {" ", "\t"}

\* description[i] for i <= size(), counted from 0: the terminating null at
\* size()
CharAt(description, pos) ==
  IF pos < Len(description) THEN description[pos + 1] ELSE "NUL"

\* description.substr(pos) and description.substr(pos, n), pos <= size()
SubstrFrom(description, pos) == SubSeq(description, pos + 1, Len(description))
Substr(description, pos, n) ==
  SubSeq(description, pos + 1, Min({pos + n, Len(description)}))

\* the characters to write on one line: up to and including the last
\* character among the first width that is not a letter, or width of them
\* when all are letters
DetermineNumCharsToWrite(description, width) ==
  IF \A k \in 1..width : isalpha(description[k]) THEN width
  ELSE CHOOSE n \in 1..width :
         /\ ~isalpha(description[n])
         /\ \A k \in (n + 1)..width : isalpha(description[k])

\* the blanks skipped from count on, at most width
BlankRun(description, count, width) ==
  Min({ skip \in 0..width :
          skip = width \/ ~isblank(CharAt(description, count + skip)) })

RECURSIVE WrapLines(_, _, _, _, _)
\* the loop at count with the stream written so far: the stream and the count
\* it ends with
WrapLines(description, width, start, count, stream) ==
  IF count >= Len(description) - width THEN [count |-> count, stream |-> stream]
  ELSE IF BlankRun(description, count, width) = width
  THEN WrapLines(description, width, start, count + width, stream)
  ELSE WrapLines(description, width, start,
         count + BlankRun(description, count, width)
               + DetermineNumCharsToWrite(SubstrFrom(description, count), width),
         stream
           \o Substr(description, count + BlankRun(description, count, width),
                     DetermineNumCharsToWrite(SubstrFrom(description, count), width))
           \o <<"\n">> \o [k \in 1..start |-> " "])

\* what follows the loop: description[count] is read, past the null when count
\* is above size(); a blank below width is skipped by a loop that never moves
\* count; otherwise the rest is written
WrapRest(description, width, w) ==
  IF w.count > Len(description) THEN [ends |-> "out of bounds", text |-> w.stream]
  ELSE IF isblank(CharAt(description, w.count)) /\ w.count < width
  THEN [ends |-> "never", text |-> w.stream]
  ELSE [ends |-> "returns", text |-> w.stream \o SubstrFrom(description, w.count)]

\* FormatDescription with _desc_width = width and _desc_start = start: how it
\* ends and the text of its stream
FormatDescriptionOf(description, width, start) ==
  IF Len(description) <= width THEN [ends |-> "returns", text |-> description]
  ELSE WrapRest(description, width, WrapLines(description, width, start, 0, EmptyStr))

\* the description as the usage text shows it
FormatDescription(description) ==
  FormatDescriptionOf(description, desc_width, desc_start).text

\* the line GenerateArgumentUsage writes for one declaration
ArgumentUsageLine(a) ==
  LET flag_ids ==
        <<" ", " ", " ", " ">> \o a.flag \o ValueSuffix(a.value)
          \o (IF a.flag # EmptyStr /\ a.alias # EmptyStr THEN <<"/">> ELSE EmptyStr)
          \o (IF a.alias # EmptyStr THEN a.alias \o ValueSuffix(a.value) ELSE EmptyStr)
  IN PadRight(flag_ids, desc_start) \o FormatDescription(a.description) \o <<"\n">>

RECURSIVE GenerateArgumentUsageFrom(_, _)
GenerateArgumentUsageFrom(list, k) ==
  IF k > Len(list) THEN EmptyStr
  ELSE ArgumentUsageLine(list[k]) \o GenerateArgumentUsageFrom(list, k + 1)

GenerateArgumentUsage(list) == GenerateArgumentUsageFrom(list, 1)

\* the text GenerateUsage stores in _flag_description
GenerateFlagDescription(req, opt, nreq) ==
  (IF Len(req) > 0 THEN <<"\n", " ", " ", "R", "e", "q", "u", "i", "r", "e", "d", " ", "f", "l", "a", "g", "s", ":", "\n">>
   ELSE EmptyStr)
    \o GenerateArgumentUsage(req)
    \o (IF Len(opt) > 0 THEN <<"\n", " ", " ", "O", "p", "t", "i", "o", "n", "a", "l", " ", "f", "l", "a", "g", "s", ":", "\n">>
        ELSE EmptyStr)
    \o GenerateArgumentUsage(opt)
    \o (IF nreq > 0
        THEN <<"\n", " ", " ">> \o to_string(nreq)
               \o <<" ", "n", "o", "n", "-", "f", "l", "a", "g", "s", " ", "a", "r", "e", " ", "r", "e", "q", "u", "i", "r", "e", "d", "\n">>
        ELSE EmptyStr)

\* "[flag=value|alias=value] " of one optional declaration
PreambleOptional(a) ==
  <<"[">> \o a.flag
    \o (IF a.flag # EmptyStr THEN ValueSuffix(a.value) ELSE EmptyStr)
    \o (IF a.alias # EmptyStr THEN <<"|">> \o a.alias \o ValueSuffix(a.value) ELSE EmptyStr)
    \o <<"]", " ">>

\* "flag=value|alias=value " of one required declaration
PreambleRequired(a) ==
  a.flag \o ValueSuffix(a.value)
    \o (IF a.alias # EmptyStr THEN <<"|">> \o a.alias \o ValueSuffix(a.value) ELSE EmptyStr)
    \o <<" ">>

RECURSIVE PreambleOptionals(_, _)
PreambleOptionals(opt, k) ==
  IF k > Len(opt) THEN EmptyStr
  ELSE PreambleOptional(opt[k]) \o PreambleOptionals(opt, k + 1)

RECURSIVE PreambleRequireds(_, _)
PreambleRequireds(req, k) ==
  IF k > Len(req) THEN EmptyStr
  ELSE PreambleRequired(req[k]) \o PreambleRequireds(req, k + 1)

\* "nonflag1 nonflag2 ... " from placeholder k to nreq
RECURSIVE PreambleNonFlags(_, _)
PreambleNonFlags(k, nreq) ==
  IF k > nreq THEN EmptyStr
  ELSE <<"n", "o", "n", "f", "l", "a", "g">> \o to_string(k) \o <<" ">>
         \o PreambleNonFlags(k + 1, nreq)

\* the text GenerateUsage stores in _preamble
GeneratePreamble(req, opt, nreq, binary) ==
  <<"U", "s", "a", "g", "e", ":", " ">> \o binary \o <<" ">>
    \o PreambleOptionals(opt, 1)
    \o PreambleRequireds(req, 1)
    \o (IF nreq > 0 THEN <<"<", "-", "-", ">", " ">> \o PreambleNonFlags(1, nreq)
        ELSE EmptyStr)
    \o <<"\n">>

\* GenerateUsage: the two blocks it overwrites
GenerateUsage(req, opt, nreq, binary) ==
  [flag_description |-> GenerateFlagDescription(req, opt, nreq),
   preamble |-> GeneratePreamble(req, opt, nreq, binary)]

\* ------------------------------------------- Parse and Initialize as a whole
\* Parse run on a store args and positionals nf: [arguments, nonflags, result]
Parse(req, opt, nreq, args, nf, av) ==
  LET s == ScanTo(req, opt, av, ScanEntry(args, nf), Len(av))
      r == ParsePostPass(req, opt, nreq, s.arguments, s.nonflags)
  IN IF s.returned
     THEN [arguments |-> s.arguments, nonflags |-> s.nonflags, result |-> s.result]
     ELSE [arguments |-> r.arguments, nonflags |-> s.nonflags, result |-> r.result]

\* the optional declarations once Initialize has registered the help flag
WithHelp(opt, help) ==
  IF help THEN Append(opt, Argument(HelpFlag, HelpAlias, HelpDescription, FALSE, EmptyStr))
  ELSE opt

\* whether Initialize takes the usage branch
Usage(req, opt, help, args, res) ==
  LET help_specified == Has(req, opt, args, HelpFlag) \/ Has(req, opt, args, HelpAlias)
  IN (help /\ help_specified) \/ res # EmptyStr

\* Initialize run on an engine: [optional, arguments, nonflags, result, exited,
\* flag_description, preamble]
Initialize(req, opt, nreq, help, exit, args, nf, av) ==
  LET opt1 == WithHelp(opt, help)
      p == Parse(req, opt1, nreq, args, nf, av)
      u == GenerateUsage(req, opt1, nreq, av[1])
      exited == Usage(req, opt1, help, p.arguments, p.result) /\ exit
  IN [optional |-> opt1, nonflags |-> p.nonflags, result |-> p.result, exited |-> exited,
      flag_description |-> u.flag_description, preamble |-> u.preamble,
      arguments |-> IF exited THEN p.arguments
                    ELSE AddFallbackValues(req, opt1, p.arguments)]

\* ----------------------------------------------------------------- actions
Init ==
  /\ required = <<>>
  /\ optional = <<>>
  /\ arguments = EmptyMap
  /\ nonflags = <<>>
  /\ nonflags_required = 0
  /\ help_enabled = TRUE
  /\ exit_enabled = TRUE
  /\ argv = <<>>
  /\ pc = "declare"
  /\ i = 0
  /\ flags_encountered = 0
  /\ delim_encountered = FALSE
  /\ result = EmptyStr
  /\ passes = 0
  /\ preamble = EmptyStr
  /\ flag_description = EmptyStr
  /\ epilogue = EmptyStr
  /\ exceptions_enabled = TRUE
  /\ errno = 0
  /\ call = NoCall
  /\ wrap = NoWrap

\* the spellings declared so far
DeclaredSpellings(req, opt) ==
  { (req \o opt)[k].flag : k \in 1..Len(req \o opt) }
    \cup { (req \o opt)[k].alias : k \in 1..Len(req \o opt) }

\* declarations come before parsing, at most MaxFlags of them, and no
\* spelling is declared twice
CanDeclare(flag, alias) ==
  /\ pc = "declare"
  /\ Len(required) + Len(optional) < MaxFlags
  /\ {flag, alias} \cap DeclaredSpellings(required, optional) = {}

AddRequiredFlag(flag, alias, description) ==
  /\ CanDeclare(flag, alias)
  /\ required' = Append(required, Argument(flag, alias, description, FALSE, EmptyStr))
  /\ UNCHANGED << optional, arguments, nonflags, nonflags_required, help_enabled,
                  exit_enabled, argv, pc, i, flags_encountered, delim_encountered,
                  result, passes,
                  usageVars, accessVars >>

AddRequiredFlagValue(flag, alias, description, fallback) ==
  /\ CanDeclare(flag, alias)
  /\ required' = Append(required, Argument(flag, alias, description, TRUE, fallback))
  /\ UNCHANGED << optional, arguments, nonflags, nonflags_required, help_enabled,
                  exit_enabled, argv, pc, i, flags_encountered, delim_encountered,
                  result, passes,
                  usageVars, accessVars >>

AddOptionalFlag(flag, alias, description) ==
  /\ CanDeclare(flag, alias)
  /\ optional' = Append(optional, Argument(flag, alias, description, FALSE, EmptyStr))
  /\ UNCHANGED << required, arguments, nonflags, nonflags_required, help_enabled,
                  exit_enabled, argv, pc, i, flags_encountered, delim_encountered,
                  result, passes,
                  usageVars, accessVars >>

AddOptionalFlagValue(flag, alias, description, fallback) ==
  /\ CanDeclare(flag, alias)
  /\ optional' = Append(optional, Argument(flag, alias, description, TRUE, fallback))
  /\ UNCHANGED << required, arguments, nonflags, nonflags_required, help_enabled,
                  exit_enabled, argv, pc, i, flags_encountered, delim_encountered,
                  result, passes,
                  usageVars, accessVars >>

RequireNonFlags(count) ==
  /\ pc = "declare"
  /\ nonflags_required' = count
  /\ UNCHANGED << required, optional, arguments, nonflags, help_enabled, exit_enabled,
                  argv, pc, i, flags_encountered, delim_encountered, result, passes,
                  usageVars, accessVars >>

DisableHelp ==
  /\ pc = "declare"
  /\ help_enabled' = FALSE
  /\ UNCHANGED << required, optional, arguments, nonflags, nonflags_required,
                  exit_enabled, argv, pc, i, flags_encountered, delim_encountered,
                  result, passes,
                  usageVars, accessVars >>

DisableExit ==
  /\ pc = "declare"
  /\ exit_enabled' = FALSE
  /\ UNCHANGED << required, optional, arguments, nonflags, nonflags_required,
                  help_enabled, argv, pc, i, flags_encountered, delim_encountered,
                  result, passes,
                  usageVars, accessVars >>

\* Initialize up to the entry of Parse's loop
InitializeEnter(av) ==
  /\ passes < MaxPasses
  /\ optional' = WithHelp(optional, help_enabled)
  /\ argv' = av
  /\ i' = 1
  /\ flags_encountered' = 0
  /\ delim_encountered' = FALSE
  /\ result' = EmptyStr
  /\ pc' = "scan"
  /\ passes' = passes + 1
  /\ UNCHANGED << required, arguments, nonflags, nonflags_required, help_enabled,
                  exit_enabled,
                  usageVars, accessVars >>

\* the first Initialize of an engine
InitializeFirst(av) ==
  /\ pc = "declare"
  /\ InitializeEnter(av)

\* Initialize called again with the same command line
InitializeAgain ==
  /\ pc = "done"
  /\ InitializeEnter(argv)

\* the loop state the variables hold
CurrentScan ==
  ScanState(arguments, nonflags, i, flags_encountered, delim_encountered, FALSE, EmptyStr)

\* one pass of the loop body on the branch named
ParseLoop(branch) ==
  /\ pc = "scan"
  /\ i < argc
  /\ ScanBranch(required, optional, argv, CurrentScan) = branch
  /\ LET s == ScanStep(required, optional, argv, CurrentScan)
     IN /\ arguments' = s.arguments
        /\ nonflags' = s.nonflags
        /\ IF s.returned
           THEN /\ pc' = "parsed"
                /\ result' = s.result
                /\ i' = 0
                /\ flags_encountered' = 0
                /\ delim_encountered' = FALSE
           ELSE /\ pc' = "scan"
                /\ result' = result
                /\ i' = s.i
                /\ flags_encountered' = s.flags_encountered
                /\ delim_encountered' = s.delim_encountered
  /\ UNCHANGED << required, optional, nonflags_required, help_enabled, exit_enabled,
                  argv, passes,
                  usageVars, accessVars >>

ParseDelimiter ==
  /\ pc = "scan"
  /\ ParseLoop("delimiter")
ParseExplicitNonFlag ==
  /\ pc = "scan"
  /\ ParseLoop("explicit_nonflag")
ParseNonValueFlag ==
  /\ pc = "scan"
  /\ ParseLoop("nonvalue_flag")
ParseValueMissing ==
  /\ pc = "scan"
  /\ ParseLoop("value_missing")
ParseValueFlag ==
  /\ pc = "scan"
  /\ ParseLoop("value_flag")
ParseFlagValueSplit ==
  /\ pc = "scan"
  /\ ParseLoop("flag_value_split")
ParseNonFlag ==
  /\ pc = "scan"
  /\ ParseLoop("nonflag")

\* the loop has ended: the checks after it, and Parse returns
ParseChecks ==
  /\ pc = "scan"
  /\ i >= argc
  /\ LET r == ParsePostPass(required, optional, nonflags_required, arguments, nonflags)
     IN /\ arguments' = r.arguments
        /\ result' = r.result
  /\ pc' = "parsed"
  /\ i' = 0
  /\ flags_encountered' = 0
  /\ delim_encountered' = FALSE
  /\ UNCHANGED << required, optional, nonflags, nonflags_required, help_enabled,
                  exit_enabled, argv, passes,
                  usageVars, accessVars >>

\* Initialize after Parse: the usage text is generated and the usage branch
\* ends the process
InitializeExit ==
  /\ pc = "parsed"
  /\ Usage(required, optional, help_enabled, arguments, result)
  /\ exit_enabled
  /\ LET u == GenerateUsage(required, optional, nonflags_required, Arg(0))
     IN /\ flag_description' = u.flag_description
        /\ preamble' = u.preamble
  /\ pc' = "exited"
  /\ UNCHANGED << required, optional, arguments, nonflags, nonflags_required,
                  help_enabled, exit_enabled, argv, i, flags_encountered,
                  delim_encountered, result, passes,
                  accessVars, epilogue, wrap >>

\* Initialize after Parse: the usage text is generated, there is no exit and
\* the fallback values are added
InitializeReturn ==
  /\ pc = "parsed"
  /\ ~(Usage(required, optional, help_enabled, arguments, result) /\ exit_enabled)
  /\ LET u == GenerateUsage(required, optional, nonflags_required, Arg(0))
     IN /\ flag_description' = u.flag_description
        /\ preamble' = u.preamble
  /\ arguments' = AddFallbackValues(required, optional, arguments)
  /\ pc' = "done"
  /\ UNCHANGED << required, optional, nonflags, nonflags_required, help_enabled,
                  exit_enabled, argv, i, flags_encountered, delim_encountered, result,
                  passes,
                  accessVars, epilogue, wrap >>

Declare ==
  \/ \E p \in SpellingPairs : AddRequiredFlag(p[1], p[2], Description)
  \/ \E p \in SpellingPairs, f \in Fallbacks :
       AddRequiredFlagValue(p[1], p[2], Description, f)
  \/ \E p \in SpellingPairs : AddOptionalFlag(p[1], p[2], Description)
  \/ \E p \in SpellingPairs, f \in Fallbacks :
       AddOptionalFlagValue(p[1], p[2], Description, f)
  \/ \E n \in 0..MaxNonFlags : RequireNonFlags(n)
  \/ DisableHelp
  \/ DisableExit

Run ==
  \/ ParseDelimiter
  \/ ParseExplicitNonFlag
  \/ ParseNonValueFlag
  \/ ParseValueMissing
  \/ ParseValueFlag
  \/ ParseFlagValueSplit
  \/ ParseNonFlag
  \/ ParseChecks
  \/ InitializeExit
  \/ InitializeReturn

\* an engine that is initialized once
Next ==
  \/ Declare
  \/ \E av \in ArgvSet : InitializeFirst(av)
  \/ Run

Spec == Init /\ [][Next]_vars

\* an engine on which Initialize may be called again
NextReinit ==
  \/ Next
  \/ InitializeAgain

SpecReinit == Init /\ [][NextReinit]_vars

\* ------------------------------------------------- calls of the accessors
\* --a with each text, alone and followed by --b 100
AccessArgv ==
  { <<Binary, FlagA, t>> : t \in NumberTexts }
    \cup { <<Binary, FlagA, t, FlagB, Text100>> : t \in NumberTexts }
\* the caller's declarations: AddOptionalFlagValue of --a and of --b
AccessOptional ==
  << Argument(FlagA, EmptyStr, Description, TRUE, EmptyStr),
     Argument(FlagB, EmptyStr, Description, TRUE, EmptyStr) >>
\* the names the accessors are asked for
QueryNames == { FlagA, FlagB, EmptyStr }

\* the engines on which Initialize has returned for --a and --b
AccessEngines ==
  { [argv |-> av,
     ini |-> Initialize(<<>>, AccessOptional, 0, TRUE, TRUE, EmptyMap, <<>>, av)] :
      av \in AccessArgv }

InitAccess ==
  \E e \in AccessEngines :
    /\ ~e.ini.exited
    /\ required = <<>>
    /\ optional = e.ini.optional
    /\ arguments = e.ini.arguments
    /\ nonflags = e.ini.nonflags
    /\ nonflags_required = 0
    /\ help_enabled = TRUE
    /\ exit_enabled = TRUE
    /\ argv = e.argv
    /\ pc = "done"
    /\ i = 0
    /\ flags_encountered = 0
    /\ delim_encountered = FALSE
    /\ result = e.ini.result
    /\ passes = 1
    /\ preamble = e.ini.preamble
    /\ flag_description = e.ini.flag_description
    /\ epilogue = EmptyStr
    /\ exceptions_enabled = TRUE
    /\ errno = 0
    /\ call = NoCall
  /\ wrap = NoWrap

DisableExceptions ==
  /\ exceptions_enabled' = FALSE
  /\ UNCHANGED << required, optional, arguments, nonflags, nonflags_required,
                  help_enabled, exit_enabled, argv, pc, i, flags_encountered,
                  delim_encountered, result, passes, usageVars, errno, call >>

\* a call of an accessor with outcome r: the engine is const, errno is not
Access(op, flag, r) ==
  /\ call' = CallRecord(op, flag, r.raised, r.ok, r.value, r.text)
  /\ errno' = r.errno
  /\ UNCHANGED << required, optional, arguments, nonflags, nonflags_required,
                  help_enabled, exit_enabled, argv, pc, i, flags_encountered,
                  delim_encountered, result, passes, usageVars, exceptions_enabled >>

GetAsStringQueryCall(flag) ==
  /\ pc = "done"
  /\ Access("GetAsString/2", flag, GetAsStringQuery(arguments, exceptions_enabled, errno, flag))

GetAsStringValueCall(flag) ==
  /\ pc = "done"
  /\ Access("GetAsString/1", flag, GetAsStringValue(arguments, exceptions_enabled, errno, flag))

GetAsFloatCall(flag) ==
  /\ pc = "done"
  /\ Access("GetAsFloat/2", flag, GetAsFloat(arguments, exceptions_enabled, errno, flag))

GetAsFloatValueCall(flag) ==
  /\ pc = "done"
  /\ Access("GetAsFloat/1", flag, GetAsFloatValue(arguments, exceptions_enabled, errno, flag))

GetAsUInt64Call(flag) ==
  /\ pc = "done"
  /\ Access("GetAsUInt64/2", flag, GetAsUInt64(arguments, exceptions_enabled, errno, flag))

GetAsUInt64ValueCall(flag) ==
  /\ pc = "done"
  /\ Access("GetAsUInt64/1", flag, GetAsUInt64Value(arguments, exceptions_enabled, errno, flag))

GetAsUInt32Call(flag) ==
  /\ pc = "done"
  /\ Access("GetAsUInt32/1", flag, GetAsUInt32(arguments, exceptions_enabled, errno, flag))

GetAsUInt16Call(flag) ==
  /\ pc = "done"
  /\ Access("GetAsUInt16/1", flag, GetAsUInt16(arguments, exceptions_enabled, errno, flag))

GetAsUInt8Call(flag) ==
  /\ pc = "done"
  /\ Access("GetAsUInt8/1", flag, GetAsUInt8(arguments, exceptions_enabled, errno, flag))

GetAsInt64Call(flag) ==
  /\ pc = "done"
  /\ Access("GetAsInt64/2", flag, GetAsInt64(arguments, exceptions_enabled, errno, flag))

GetAsInt64ValueCall(flag) ==
  /\ pc = "done"
  /\ Access("GetAsInt64/1", flag, GetAsInt64Value(arguments, exceptions_enabled, errno, flag))

GetAsInt32Call(flag) ==
  /\ pc = "done"
  /\ Access("GetAsInt32/1", flag, GetAsInt32(arguments, exceptions_enabled, errno, flag))

GetAsInt16Call(flag) ==
  /\ pc = "done"
  /\ Access("GetAsInt16/1", flag, GetAsInt16(arguments, exceptions_enabled, errno, flag))

GetAsInt8Call(flag) ==
  /\ pc = "done"
  /\ Access("GetAsInt8/1", flag, GetAsInt8(arguments, exceptions_enabled, errno, flag))

NextAccess ==
  \/ DisableExceptions
  \/ \E flag \in QueryNames : GetAsStringQueryCall(flag)
  \/ \E flag \in QueryNames : GetAsStringValueCall(flag)
  \/ \E flag \in QueryNames : GetAsFloatCall(flag)
  \/ \E flag \in QueryNames : GetAsFloatValueCall(flag)
  \/ \E flag \in QueryNames : GetAsUInt64Call(flag)
  \/ \E flag \in QueryNames : GetAsUInt64ValueCall(flag)
  \/ \E flag \in QueryNames : GetAsUInt32Call(flag)
  \/ \E flag \in QueryNames : GetAsUInt16Call(flag)
  \/ \E flag \in QueryNames : GetAsUInt8Call(flag)
  \/ \E flag \in QueryNames : GetAsInt64Call(flag)
  \/ \E flag \in QueryNames : GetAsInt64ValueCall(flag)
  \/ \E flag \in QueryNames : GetAsInt32Call(flag)
  \/ \E flag \in QueryNames : GetAsInt16Call(flag)
  \/ \E flag \in QueryNames : GetAsInt8Call(flag)

\* the accessors called, in any order, on an initialized engine
SpecAccess == InitAccess /\ [][NextAccess]_vars

\* ------------------------------------------------- the usage text setters
\* the text a caller sets a usage block to
OverrideTexts == { <<"A">> }
\* the command lines of the Initialize that generates the usage text
UsageArgv ==
  { <<Binary>>, <<Binary, ValueX>>, <<Binary, HelpAlias>>, <<Binary, AliasA>>,
    <<Binary, AliasA, ValueX>>, <<Binary, FlagA \o <<"=">> \o ValueX>>,
    <<Binary, Delimiter, ValueX>> }

\* the caller is not inside Initialize
CallerHasControl == pc \in {"declare", "done"}

SetPreamble(text) ==
  /\ CallerHasControl
  /\ preamble' = text
  /\ UNCHANGED << required, optional, arguments, nonflags, nonflags_required,
                  help_enabled, exit_enabled, argv, pc, i, flags_encountered,
                  delim_encountered, result, passes, flag_description, epilogue,
                  accessVars, wrap >>

SetEpilogue(text) ==
  /\ CallerHasControl
  /\ epilogue' = text
  /\ UNCHANGED << required, optional, arguments, nonflags, nonflags_required,
                  help_enabled, exit_enabled, argv, pc, i, flags_encountered,
                  delim_encountered, result, passes, flag_description, preamble,
                  accessVars, wrap >>

SetFlagDescription(text) ==
  /\ CallerHasControl
  /\ flag_description' = text
  /\ UNCHANGED << required, optional, arguments, nonflags, nonflags_required,
                  help_enabled, exit_enabled, argv, pc, i, flags_encountered,
                  delim_encountered, result, passes, preamble, epilogue,
                  accessVars, wrap >>

NextUsage ==
  \/ Declare
  \/ \E text \in OverrideTexts : SetPreamble(text)
  \/ \E text \in OverrideTexts : SetEpilogue(text)
  \/ \E text \in OverrideTexts : SetFlagDescription(text)
  \/ \E av \in UsageArgv : InitializeFirst(av)
  \/ Run

\* an engine whose usage blocks the caller sets, before and after Initialize
SpecUsage == Init /\ [][NextUsage]_vars

\* ---------------------------------------- FormatDescription, step by step
\* the characters of the descriptions wrapped here: a letter, a blank and a
\* character that is neither
WrapAlphabet == {"a", " ", ","}
WrapDescriptions == UNION { [1..n -> WrapAlphabet] : n \in 0..MaxDescription }

\* the frame of a FormatDescription call: where it is (at), its argument,
\* _desc_width, and the locals count, skip and stream
WrapFrame(at, description, width, count, skip, stream) ==
  [at |-> at, description |-> description, width |-> width, count |-> count,
   skip |-> skip, stream |-> stream]

\* FormatDescription(description) is called on an engine whose _desc_width is
\* width
InitWrap ==
  /\ required = <<>>
  /\ optional = <<>>
  /\ arguments = EmptyMap
  /\ nonflags = <<>>
  /\ nonflags_required = 0
  /\ help_enabled = TRUE
  /\ exit_enabled = TRUE
  /\ argv = <<>>
  /\ pc = "declare"
  /\ i = 0
  /\ flags_encountered = 0
  /\ delim_encountered = FALSE
  /\ result = EmptyStr
  /\ passes = 0
  /\ preamble = EmptyStr
  /\ flag_description = EmptyStr
  /\ epilogue = EmptyStr
  /\ exceptions_enabled = TRUE
  /\ errno = 0
  /\ call = NoCall
  /\ \E description \in WrapDescriptions, width \in 1..MaxWidth :
       wrap = WrapFrame("entry", description, width, 0, 0, EmptyStr)

\* a step of FormatDescription changes its frame only
WrapStep(at, count, skip, stream) ==
  /\ wrap' = WrapFrame(at, wrap.description, wrap.width, count, skip, stream)
  /\ UNCHANGED << required, optional, arguments, nonflags, nonflags_required,
                  help_enabled, exit_enabled, argv, pc, i, flags_encountered,
                  delim_encountered, result, passes, preamble, flag_description,
                  epilogue, accessVars >>

\* a description that fits is returned as it is; a longer one enters the loop
\* with count = 0
FormatDescriptionEnter ==
  /\ wrap.at = "entry"
  /\ IF Len(wrap.description) <= wrap.width
     THEN WrapStep("returned", 0, 0, wrap.description)
     ELSE WrapStep("loop", 0, 0, EmptyStr)

\* the test of the loop
WrapLoopTest == wrap.count < Len(wrap.description) - wrap.width

\* a pass of the loop that finds _desc_width blanks: they are skipped and
\* nothing is written
FormatDescriptionBlankLine ==
  /\ wrap.at = "loop"
  /\ WrapLoopTest
  /\ BlankRun(wrap.description, wrap.count, wrap.width) = wrap.width
  /\ WrapStep("loop", wrap.count + wrap.width, 0, wrap.stream)

\* a pass of the loop that writes a line: to_write is computed at count, the
\* blanks at count are skipped, to_write characters and the indentation of the
\* next line are written
FormatDescriptionLine ==
  /\ wrap.at = "loop"
  /\ WrapLoopTest
  /\ BlankRun(wrap.description, wrap.count, wrap.width) < wrap.width
  /\ WrapStep("loop",
       wrap.count + BlankRun(wrap.description, wrap.count, wrap.width)
         + DetermineNumCharsToWrite(SubstrFrom(wrap.description, wrap.count), wrap.width),
       0,
       wrap.stream
         \o Substr(wrap.description,
                   wrap.count + BlankRun(wrap.description, wrap.count, wrap.width),
                   DetermineNumCharsToWrite(SubstrFrom(wrap.description, wrap.count),
                                            wrap.width))
         \o <<"\n">> \o [k \in 1..desc_start |-> " "])

\* the loop ends and skip is declared again
FormatDescriptionLoopEnd ==
  /\ wrap.at = "loop"
  /\ ~WrapLoopTest
  /\ WrapStep("rest", wrap.count, 0, wrap.stream)

\* what follows the loop once description[count] has been read as c: a blank
\* below _desc_width is a pass of the second loop, which adds one to skip and
\* leaves count; otherwise the rest is written, nothing when its length
\* int(size() - count) is negative, and the stream is returned
WrapRestStep(c) ==
  IF isblank(c) /\ wrap.count < wrap.width
  THEN WrapStep("rest", wrap.count, wrap.skip + 1, wrap.stream)
  ELSE IF wrap.skip # wrap.width
  THEN WrapStep("returned", wrap.count + wrap.skip, wrap.skip,
                IF wrap.count + wrap.skip <= Len(wrap.description)
                THEN wrap.stream \o SubstrFrom(wrap.description, wrap.count + wrap.skip)
                ELSE wrap.stream)
  ELSE WrapStep("returned", wrap.count, wrap.skip, wrap.stream)

\* description[count] is a character of the description or its null
FormatDescriptionRest ==
  /\ wrap.at = "rest"
  /\ wrap.count <= Len(wrap.description)
  /\ WrapRestStep(CharAt(wrap.description, wrap.count))

\* description[count] with count above size() is undefined: the read is
\* caught and the program ends there, or it gives whatever character lies
\* past the description
FormatDescriptionRestOutOfBounds ==
  /\ wrap.at = "rest"
  /\ wrap.count > Len(wrap.description)
  /\ \/ WrapStep("aborted", wrap.count, wrap.skip, wrap.stream)
     \/ \E c \in WrapAlphabet \cup {"NUL"} : WrapRestStep(c)

NextWrap ==
  \/ FormatDescriptionEnter
  \/ FormatDescriptionBlankLine
  \/ FormatDescriptionLine
  \/ FormatDescriptionLoopEnd
  \/ FormatDescriptionRest
  \/ FormatDescriptionRestOutOfBounds

\* one FormatDescription call, from its entry on
SpecWrap == InitWrap /\ [][NextWrap]_vars

\* the call keeps running while it has a step to take
SpecWrapFair == SpecWrap /\ WF_vars(NextWrap)

\* ================================================================== claims
\* ------------------------------------------------------- shared vocabulary
Declarations == required \o optional
DeclIndex == 1..Len(Declarations)
Returned == pc \in {"parsed", "done", "exited"}

\* the literal text a diagnostic starts with ("" for the empty diagnostic)
DiagKind(d) == IF d = EmptyStr THEN "" ELSE d[1]

\* sub occurs in text as a run of consecutive characters
Contains(text, sub) ==
  \E o \in 0..(Len(text) - Len(sub)) : SubSeq(text, o + 1, o + Len(sub)) = sub

\* the name CheckForMissing reports a declaration under
ReportedName(d) == IF d.flag # EmptyStr THEN d.flag ELSE d.alias

\* the part of a token before its first '=' (the whole token when it has none)
LeftOfEquals(token) == substr(token, 0, find_first_of(token, "="))

\* neither spelling of d occurs in av as a token or as the left side of name=value
AbsentFromInput(d, av) ==
  \A k \in 2..Len(av) :
    /\ av[k] \notin {d.flag, d.alias}
    /\ LeftOfEquals(av[k]) \notin {d.flag, d.alias}

\* the loop reads C's argv[k] as its current token (it is not skipped as a value)
ReadByLoop(k) ==
  LET s == ScanTo(required, optional, argv, ScanEntry(EmptyMap, <<>>), k)
  IN ~s.returned /\ s.i = k

\* the loop has read a "--" token before the current index
DelimSeen == \E k \in 1..(i - 1) : Arg(k) = Delimiter /\ ReadByLoop(k)

\* the loop has ended and Parse has not yet run its checks
ScanEnded == pc = "scan" /\ i >= argc

\* the step in which Parse runs its post-loop checks and returns
ChecksStep == ScanEnded /\ pc' = "parsed"

\* -------------------------------------------------------------------- C1
\* C1: after Parse returns the empty diagnostic, for every declaration with a
\* non-empty primary and alias, the two-argument GetAsString gives the same
\* found/value result for both spellings and Has agrees on both.
C1_AliasEquivalence ==
  (Returned /\ result = EmptyStr) =>
    \A k \in DeclIndex :
      LET d == Declarations[k]
      IN (d.flag # EmptyStr /\ d.alias # EmptyStr) =>
           /\ GetAsString(arguments, d.flag) = GetAsString(arguments, d.alias)
           /\ Has(required, optional, arguments, d.flag)
                = Has(required, optional, arguments, d.alias)

\* -------------------------------------------------------------------- C2
\* some value-taking declaration has a spelling stored with the empty string
EmptyValueStored ==
  \E k \in DeclIndex :
    LET d == Declarations[k]
    IN /\ d.value
       /\ \E key \in {d.flag, d.alias} \cap DOMAIN arguments : arguments[key] = EmptyStr

\* C2: when the value-presence check is reached (the scan completed and the
\* positional count matched) and a value-taking declaration has its primary or
\* its alias stored with the empty string, Parse returns a "Must specify value
\* for <name>" diagnostic.
C2_EmptyValueDiagnosed ==
  [][ (ChecksStep /\ Len(nonflags) = nonflags_required /\ EmptyValueStored)
        => DiagKind(result') = "Must specify value for " ]_vars

C4_PositionalOnlyPermanent ==
  [][ (pc = "scan" /\ delim_encountered /\ i < argc)
        => /\ pc' = "scan"
           /\ delim_encountered'
           /\ nonflags' = Append(nonflags, Arg(i))
           /\ arguments' = arguments ]_vars

\* -------------------------------------------------------------------- C5
\* the current token is a declared spelling read while the loop is scanning
ScansDeclaredToken ==
  /\ pc = "scan"
  /\ i < argc
  /\ ~delim_encountered
  /\ FirstMatch(required, optional, Arg(i)) # 0

\* such a token is consumed as a flag and not recorded as a positional
ConsumedAsFlag ==
  /\ nonflags' = nonflags
  /\ pc' = "scan"
  /\ Arg(i) \in DOMAIN arguments'
  /\ flags_encountered' = flags_encountered + 1

\* C5 as claimed: while scanning, the loop is in positional-only mode exactly
\* when a "--" has been read or the flag occurrences consumed number at least
\* required.size() + optional.size().
C5_PositionalOnlyExactly ==
  pc = "scan" =>
    (delim_encountered <=>
       (DelimSeen \/ flags_encountered >= total_flags(required, optional)))

\* C5 as amended: the loop is in positional-only mode exactly when a "--" has
\* been read or at least one flag occurrence has been consumed and the count is
\* at least required.size() + optional.size(); before that, a token the loop
\* reads that equals a declared spelling is never recorded as a positional: it
\* is consumed as a flag, or it is a value flag with no token after it and
\* Parse returns "Must set value for" it.
C5_PositionalOnlyAmended ==
  /\ [](pc = "scan" =>
          (delim_encountered <=>
             (DelimSeen \/ (flags_encountered >= 1
                            /\ flags_encountered >= total_flags(required, optional)))))
  /\ [][ ScansDeclaredToken =>
           \/ ConsumedAsFlag
           \/ /\ i + 1 = argc
              /\ pc' = "parsed"
              /\ nonflags' = nonflags
              /\ result' = <<"Must set value for ">> \o Arg(i) ]_vars

\* the count reached the number of declared flags, two of them, with no "--"
C5_Witness ==
  /\ pc = "scan"
  /\ delim_encountered
  /\ ~DelimSeen
  /\ flags_encountered = 2
  /\ total_flags(required, optional) = 2

\* -------------------------------------------------------------------- C6
\* the declared spellings of value-taking flags
ValueFlagNames ==
  { f \in DeclaredSpellings(required, optional) : CheckIfValueFlag(required, optional, f) }

\* the token at C index k is f, an '=' and some value
IsSplitForm(k, f) ==
  /\ Len(Arg(k)) > Len(f)
  /\ SubSeq(Arg(k), 1, Len(f) + 1) = f \o <<"=">>

\* that value
SplitValue(k, f) == SubSeq(Arg(k), Len(f) + 2, Len(Arg(k)))

\* argv with the f=v token at C index k written as the two tokens f, v
TwoTokenForm(k, f) ==
  SubSeq(argv, 1, k) \o << f, SplitValue(k, f) >> \o SubSeq(argv, k + 2, Len(argv))

\* the loop run on the two-token form of the command line
TwoTokenScan(k, f) ==
  ScanTo(required, optional, TwoTokenForm(k, f), ScanEntry(EmptyMap, <<>>),
         Len(TwoTokenForm(k, f)))

\* C6 as claimed: for any prefix and suffix, scanning prefix ++ [f=v] ++ suffix
\* and scanning prefix ++ [f, v] ++ suffix leave the same string under f.
C6_SplitEqualsTwoTokens ==
  ScanEnded =>
    \A k \in 1..(argc - 1), f \in ValueFlagNames :
      IsSplitForm(k, f) =>
        GetAsString(TwoTokenScan(k, f).arguments, f) = GetAsString(arguments, f)

\* C6 as amended: when the loop reads the f=v token as its current token (the
\* prefix does not end in a value flag that takes it as its value), the two
\* forms leave the same value store, the same flags-encountered count and the
\* same parser state.
C6_SplitEqualsTwoTokensRead ==
  ScanEnded =>
    \A k \in 1..(argc - 1), f \in ValueFlagNames :
      (IsSplitForm(k, f) /\ ReadByLoop(k)) =>
        LET t == TwoTokenScan(k, f)
        IN /\ ~t.returned
           /\ t.arguments = arguments
           /\ t.flags_encountered = flags_encountered
           /\ t.delim_encountered = delim_encountered

\* an f=v token was read while scanning and its value stored under f
C6_Witness ==
  /\ ScanEnded
  /\ \E k \in 1..(argc - 1) :
       /\ IsSplitForm(k, FlagA)
       /\ FlagA \in ValueFlagNames
       /\ ReadByLoop(k)
       /\ SplitValue(k, FlagA) = ValueX
       /\ GetAsString(arguments, FlagA) = [found |-> TRUE, value |-> ValueX]

\* -------------------------------------------------------------------- C7
\* C7: when Parse returned a non-empty diagnostic and Initialize returned, the
\* value store holds exactly the keys the token scan wrote.
C7_NoBackfillOnFailure ==
  (pc = "done" /\ result # EmptyStr) =>
    DOMAIN arguments
      = DOMAIN ScanTo(required, optional, argv, ScanEntry(EmptyMap, <<>>), argc).arguments

\* -------------------------------------------------------------------- C8
\* the optional declarations the caller made (Initialize appended the help flag
\* once per pass)
CallerOptional ==
  SubSeq(optional, 1, Len(optional) - (IF help_enabled THEN passes ELSE 0))

\* C8: after a second Initialize the value store, the positionals and the
\* diagnostic are those of a fresh engine with the same declarations.
C8_SecondPassFresh ==
  (pc = "done" /\ passes = 2) =>
    LET fresh == Initialize(required, CallerOptional, nonflags_required, help_enabled,
                            exit_enabled, EmptyMap, <<>>, argv)
    IN /\ arguments = fresh.arguments
       /\ nonflags = fresh.nonflags
       /\ result = fresh.result

\* -------------------------------------------------------------------- C9
\* an optional value declaration with a fallback and both spellings, neither
\* of them in the input
OmittedWithFallback(d) ==
  /\ d.value
  /\ d.fallback # EmptyStr
  /\ d.flag # EmptyStr
  /\ d.alias # EmptyStr
  /\ AbsentFromInput(d, argv)

\* C9: after a successful Initialize, such a declaration's fallback is found by
\* the two-argument GetAsString under the primary and under the alias.
C9_FallbackUnderBothSpellings ==
  (pc = "done" /\ result = EmptyStr) =>
    \A k \in 1..Len(optional) :
      OmittedWithFallback(optional[k]) =>
        /\ GetAsString(arguments, optional[k].flag)
             = [found |-> TRUE, value |-> optional[k].fallback]
        /\ GetAsString(arguments, optional[k].alias)
             = [found |-> TRUE, value |-> optional[k].fallback]

\* a successful Initialize of a command line with tokens that omits such a flag
C9_Witness ==
  /\ pc = "done"
  /\ result = EmptyStr
  /\ Len(argv) > 1
  /\ \E k \in 1..Len(optional) : OmittedWithFallback(optional[k])

\* ------------------------------------------------------------------- C10
\* every required declaration has a spelling in the store, with a non-empty
\* value when it takes one
RequiredSupplied ==
  \A r \in 1..Len(required) :
    \E key \in {required[r].flag, required[r].alias} \cap DOMAIN arguments :
      required[r].value => arguments[key] # EmptyStr

ValueFailing ==
  { k \in DeclIndex :
      /\ Declarations[k].value
      /\ \E key \in {Declarations[k].flag, Declarations[k].alias} \cap DOMAIN arguments :
           arguments[key] = EmptyStr }

\* the required declarations neither spelling of which is in the store
MissingRequired ==
  { r \in 1..Len(required) :
      required[r].flag \notin DOMAIN arguments /\ required[r].alias \notin DOMAIN arguments }

\* the loop is at a value flag that has no token after it
ValueFlagAtEnd ==
  /\ pc = "scan"
  /\ i + 1 = argc
  /\ ~delim_encountered
  /\ Arg(i) # Delimiter
  /\ CheckIfValueFlag(required, optional, Arg(i))

\* C11: Parse returns the diagnostic of the first failure in the order: a value
\* flag with no next token during the scan; the positional count; the value
\* presence of required, then optional declarations in declared order; the
\* missing required declarations in declared order; and the empty diagnostic
\* when none applies.
C11_FirstFailureWins ==
  [][ /\ ValueFlagAtEnd =>
           (pc' = "parsed" /\ result' = <<"Must set value for ">> \o Arg(i))
      /\ ChecksStep =>
           IF Len(nonflags) # nonflags_required
           THEN DiagKind(result') \in
                  {"Unknown arguments", "Unknown arguments or user must specify "}
           ELSE IF ValueFailing # {}
           THEN LET d == Declarations[Min(ValueFailing)]
                IN result' \in { <<"Must specify value for ">> \o d.flag,
                                 <<"Must specify value for ">> \o d.alias }
           ELSE IF MissingRequired # {}
           THEN result' = <<"Must specify ">> \o ReportedName(required[Min(MissingRequired)])
           ELSE result' = EmptyStr ]_vars

\* ------------------------------------------------------------------- C12
OneArgumentTyped ==
  { "GetAsFloat/1", "GetAsUInt64/1", "GetAsUInt32/1", "GetAsUInt16/1", "GetAsUInt8/1",
    "GetAsInt64/1", "GetAsInt32/1", "GetAsInt16/1", "GetAsInt8/1" }
TwoArgumentTyped == { "GetAsFloat/2", "GetAsUInt64/2", "GetAsInt64/2" }
IntegerAccessors == (OneArgumentTyped \cup TwoArgumentTyped) \ { "GetAsFloat/1", "GetAsFloat/2" }

\* a step that is a call of one of the accessors ops
AccessorStep(ops) == exceptions_enabled' = exceptions_enabled /\ call'.op \in ops

\* the non-empty names asked for that are not keys of the value store
AbsentNames == { f \in QueryNames \ {EmptyStr} : f \notin DOMAIN arguments }

\* C12: for a flag name absent from the value store, every two-argument typed
\* accessor returns false without raising, and every one-argument typed
\* accessor raises SargsError when exceptions are enabled and returns the
\* zero value when they are disabled.
C12_AbsentFlag ==
  [][ (AccessorStep(OneArgumentTyped \cup TwoArgumentTyped) /\ call'.flag \in AbsentNames)
        => IF call'.op \in TwoArgumentTyped THEN ~call'.raised /\ ~call'.ok
           ELSE IF exceptions_enabled THEN call'.raised
           ELSE ~call'.raised /\ call'.value \in { Zero, FloatOf(Zero) } ]_vars

\* ------------------------------------------------------------------- C13
AllAccessors == OneArgumentTyped \cup TwoArgumentTyped \cup { "GetAsString/1", "GetAsString/2" }

\* C13: once DisableExceptions has been called, no accessor call raises
\* SargsError, whatever the query and the stored value.
C13_NeverRaisesWhenDisabled ==
  [][ (AccessorStep(AllAccessors) /\ ~exceptions_enabled) => ~call'.raised ]_vars

\* ------------------------------------------------------------------- C14
\* what the integer accessor op gives for a store, a toggle, an errno and a flag
IntegerAccessor(op, args, exc, err, flag) ==
  CASE op = "GetAsUInt64/2" -> GetAsUInt64(args, exc, err, flag)
    [] op = "GetAsUInt64/1" -> GetAsUInt64Value(args, exc, err, flag)
    [] op = "GetAsUInt32/1" -> GetAsUInt32(args, exc, err, flag)
    [] op = "GetAsUInt16/1" -> GetAsUInt16(args, exc, err, flag)
    [] op = "GetAsUInt8/1" -> GetAsUInt8(args, exc, err, flag)
    [] op = "GetAsInt64/2" -> GetAsInt64(args, exc, err, flag)
    [] op = "GetAsInt64/1" -> GetAsInt64Value(args, exc, err, flag)
    [] op = "GetAsInt32/1" -> GetAsInt32(args, exc, err, flag)
    [] op = "GetAsInt16/1" -> GetAsInt16(args, exc, err, flag)
    [] op = "GetAsInt8/1" -> GetAsInt8(args, exc, err, flag)

\* the call record gives what the outcome r gives
SameOutcome(c, r) == c.raised = r.raised /\ c.ok = r.ok /\ c.value = r.value

\* C14: what an integer accessor call gives depends on the value store, the
\* flag and the exceptions toggle only: it is what the same call gives in a
\* process where no conversion has failed, and a call on --b, whose stored
\* value 100 is in the range of every width, returns 100 whatever was called
\* before.
C14_FailureLocalToCall ==
  [][ AccessorStep(IntegerAccessors)
        => /\ SameOutcome(call', IntegerAccessor(call'.op, arguments, exceptions_enabled,
                                                 0, call'.flag))
           /\ (call'.flag = FlagB /\ FlagB \in DOMAIN arguments)
                => (~call'.raised /\ call'.ok /\ call'.value = Number(FALSE, <<1, 0, 0>>)) ]_vars

\* ------------------------------------------------------------------- C15
UnsignedNarrow == { "GetAsUInt32/1", "GetAsUInt16/1", "GetAsUInt8/1" }
SignedNarrow == { "GetAsInt32/1", "GetAsInt16/1", "GetAsInt8/1" }

\* the text without its minus sign
DecimalBody(text) == IF text # <<>> /\ text[1] = "-" THEN Tail(text) ELSE text

\* a decimal string: digits only, after a minus sign when signed
IsDecimal(text, signed) ==
  /\ signed \/ DecimalBody(text) = text
  /\ DecimalBody(text) # <<>>
  /\ \A k \in 1..Len(DecimalBody(text)) : DigitValue(DecimalBody(text)[k]) < 10

\* the value v of a decimal string
DecimalOf(text) ==
  LET mag == StripZeros([k \in 1..Len(DecimalBody(text)) |-> DigitValue(DecimalBody(text)[k])])
  IN Number(DecimalBody(text) # text /\ mag # <<0>>, mag)

\* the maximum of an accessor's width and the magnitude of its minimum
WidthMax(op) ==
  CASE op = "GetAsUInt8/1" -> UInt8Max [] op = "GetAsUInt16/1" -> UInt16Max
    [] op = "GetAsUInt32/1" -> UInt32Max [] op = "GetAsInt8/1" -> Int8Max
    [] op = "GetAsInt16/1" -> Int16Max [] op = "GetAsInt32/1" -> Int32Max
WidthMinMag(op) ==
  CASE op = "GetAsInt8/1" -> Int8MinMag [] op = "GetAsInt16/1" -> Int16MinMag
    [] op = "GetAsInt32/1" -> Int32MinMag [] OTHER -> <<0>>

\* a one-argument call that fails: it raises when exceptions are enabled and
\* returns the 0 sentinel otherwise
Fails(c, exc) == IF exc THEN c.raised ELSE ~c.raised /\ c.value = Zero

\* C15: for a stored decimal string with value v (non-negative for the
\* unsigned accessors), the 8-, 16- and 32-bit accessors return v when v lies
\* between the width's minimum and maximum, and fail otherwise.
C15_NarrowingRangeChecked ==
  [][ ( /\ AccessorStep(UnsignedNarrow \cup SignedNarrow)
        /\ call'.flag \in DOMAIN arguments
        /\ IsDecimal(arguments[call'.flag], call'.op \in SignedNarrow) )
        => LET v == DecimalOf(arguments[call'.flag])
           IN IF Above(v, WidthMax(call'.op)) \/ Below(v, WidthMinMag(call'.op))
              THEN Fails(call', exceptions_enabled)
              ELSE ~call'.raised /\ call'.value = v ]_vars

\* ------------------------------------------------------------------- C16
UnsignedAccessors == { "GetAsUInt64/1", "GetAsUInt32/1", "GetAsUInt16/1", "GetAsUInt8/1" }

\* the maximum 2^w - 1 of an unsigned accessor
UnsignedMax(op) == IF op = "GetAsUInt64/1" THEN ULONG_MAX ELSE WidthMax(op)

\* a negative decimal string whose magnitude is below 2^8, such as "-1"
SmallNegative(text) ==
  /\ IsDecimal(text, TRUE)
  /\ DecimalOf(text).neg
  /\ ~BigLess(UInt8Max, DecimalOf(text).mag)

\* the outcome r returns the text's value wrapped modulo 2^w
Wraps(r, op, text) ==
  /\ ~r.raised
  /\ r.value = Number(FALSE, BigSub(MulAdd(UnsignedMax(op), 1, 1), DecimalOf(text).mag))

\* C16: a stored negative value asked for through the unsigned accessors is
\* handled by one rule for the four widths: when one of them is called, either
\* it fails and each of the other widths fails on the same engine, or it
\* returns the value wrapped modulo 2^w and so does each of the others.
C16_NegativeUnsignedOneRule ==
  [][ ( /\ AccessorStep(UnsignedAccessors)
        /\ call'.flag \in DOMAIN arguments
        /\ SmallNegative(arguments[call'.flag]) )
        => \A other \in UnsignedAccessors :
             LET text == arguments[call'.flag]
                 r == IntegerAccessor(other, arguments, exceptions_enabled, errno, call'.flag)
             IN \/ Fails(call', exceptions_enabled) /\ Fails(r, exceptions_enabled)
                \/ Wraps(call', call'.op, text) /\ Wraps(r, other, text) ]_vars

\* ------------------------------------------------------------------- C17
\* a text with no leading digits: after white space and a sign, it is empty
\* or begins with a character that is not a decimal digit
NonNumeric(text) ==
  LET s == SkipSpace(text)
      body == IF s # <<>> /\ s[1] \in {"-", "+"} THEN Tail(s) ELSE s
  IN body = <<>> \/ DigitValue(body[1]) >= 10

\* C17: when the stored value of the flag is non-numeric text, an integer
\* accessor call reports a conversion failure: it raises when exceptions are
\* enabled, and otherwise the two-argument forms return false and the
\* one-argument forms return 0; it never succeeds with a number.
C17_NonNumericFails ==
  [][ ( /\ AccessorStep(IntegerAccessors)
        /\ call'.flag \in DOMAIN arguments
        /\ NonNumeric(arguments[call'.flag]) )
        => IF exceptions_enabled THEN call'.raised
           ELSE IF call'.op \in TwoArgumentTyped THEN ~call'.raised /\ ~call'.ok
           ELSE ~call'.raised /\ call'.value = Zero ]_vars

\* ------------------------------------------------------------------- C18
\* no flag is declared, the built-in help is disabled and no positional is
\* required
NothingDeclared ==
  required = <<>> /\ optional = <<>> /\ ~help_enabled /\ nonflags_required = 0

\* the tokens after the invocation name
TokensAfterName == { argv[k] : k \in 2..Len(argv) }

\* C18: with nothing declared, Parse returns "Unknown arguments" for every
\* token sequence, and the value store stays empty.
C18_UnknownArguments ==
  (NothingDeclared /\ Returned)
    => (result = <<"Unknown arguments">> /\ arguments = EmptyMap)

\* C18, amended: with nothing declared, the value store stays empty, and Parse
\* returns "Unknown arguments" for every token sequence that holds at least
\* one token other than "--"; for the empty sequence and for a sequence of
\* "--" tokens only it returns the empty diagnostic.
C18_UnknownArgumentsAmended ==
  NothingDeclared
    => /\ arguments = EmptyMap
       /\ Returned
            => result = (IF TokensAfterName \ {Delimiter} # {}
                         THEN <<"Unknown arguments">> ELSE EmptyStr)

\* nothing declared, Parse has returned for "--" followed by another token
C18_Witness ==
  /\ NothingDeclared
  /\ pc = "parsed"
  /\ Len(argv) = 3
  /\ argv[2] = Delimiter
  /\ argv[3] # Delimiter
  /\ result = <<"Unknown arguments">>

\* ------------------------------------------------------------------- C19
\* C19: a usage block the caller set before Initialize (no setter runs while
\* Initialize does, so the block still holds that text when Parse has
\* returned) is what its getter returns once Initialize has returned, and from
\* then on a block changes only to the text a setter gives it.
C19_OverrideSurvives ==
  [][ /\ (pc = "parsed" /\ pc' = "done")
        => /\ preamble \in OverrideTexts => preamble' = preamble
           /\ flag_description \in OverrideTexts => flag_description' = flag_description
           /\ epilogue \in OverrideTexts => epilogue' = epilogue
      /\ (pc = "done" /\ pc' = "done")
        => /\ preamble' \in {preamble} \cup OverrideTexts
           /\ flag_description' \in {flag_description} \cup OverrideTexts
           /\ epilogue' \in {epilogue} \cup OverrideTexts ]_vars

\* ------------------------------------------------------------------- C20
\* the step in which a repeated Initialize returns, its GenerateUsage done
SecondGeneration == pc = "parsed" /\ passes >= 2 /\ pc' \in {"done", "exited"}

\* C20: when Initialize is run again on the same engine with the same token
\* sequence and no declaration call in between, it leaves the preamble and
\* the flag-description block as the run before generated them.
C20_GenerationIdempotent ==
  [][ SecondGeneration
        => (preamble' = preamble /\ flag_description' = flag_description) ]_vars

\* ------------------------------------------------------------------- C21
\* a pass of one of FormatDescription's loops: the call is in the same loop
\* before and after the step
LoopPass == wrap.at \in {"loop", "rest"} /\ wrap'.at = wrap.at
LongDescription == Len(wrap.description) > wrap.width

\* C21: called with a description longer than the wrap width, for every wrap
\* width >= 1, FormatDescription reaches its return, and every pass of its
\* loops strictly advances the read position count.
C21_WrappingTerminates ==
  /\ [][LoopPass => wrap'.count > wrap.count]_vars
  /\ (wrap.at = "entry" /\ LongDescription) ~> (wrap.at = "returned")

\* ------------------------------------------------------------------- C22
\* the store as the token scan of this Initialize left it: the spellings the
\* user typed as flags, with the values the user gave them
ScannedStore ==
  ScanTo(required, optional, argv, ScanEntry(EmptyMap, <<>>), argc).arguments

\* the spellings of declaration d the user supplied
SuppliedSpellings(d) == ({d.flag, d.alias} \ {EmptyStr}) \cap DOMAIN ScannedStore

\* C22: when the input supplied a value flag that has a fallback, under its
\* primary or its alias spelling and with any value, then after Initialize
\* neither spelling resolves to the fallback unless the user's value equals it,
\* and the spelling the user typed still holds the user's value.
C22_FallbackOnlyWhenNotSupplied ==
  (pc = "done") =>
    \A k \in DeclIndex :
      LET d == Declarations[k]
      IN (d.value /\ d.fallback # EmptyStr /\ SuppliedSpellings(d) # {}) =>
           /\ \A s \in {d.flag, d.alias} \ {EmptyStr} :
                (GetAsString(arguments, s) = [found |-> TRUE, value |-> d.fallback])
                  => \E t \in SuppliedSpellings(d) : ScannedStore[t] = d.fallback
           /\ \A t \in SuppliedSpellings(d) : arguments[t] = ScannedStore[t]

\* ------------------------------------------------------------------- C23
\* the non-empty names Has is asked about: the declared and typed spellings
\* and --b, which is neither declared nor typed
HasNames == {FlagA, AliasA, HelpFlag, HelpAlias, ValueX, FlagB}

\* the other spellings of the declarations that name is a spelling of
OtherSpellings(name) ==
  { Declarations[k].alias : k \in { j \in DeclIndex : Declarations[j].flag = name } }
    \cup { Declarations[k].flag : k \in { j \in DeclIndex : Declarations[j].alias = name } }

\* C23: after declarations and Initialize, Has(name) is true only if name, or
\* the other spelling of the declaration name belongs to, is a key of the
\* value store; so Has is false for a non-empty name that matches no declared
\* spelling and was not a flag in the input.
C23_HasOnlyWhatIsThere ==
  (pc = "done") =>
    \A name \in HasNames :
      Has(required, optional, arguments, name)
        => (name \in DOMAIN arguments \/ OtherSpellings(name) \cap DOMAIN arguments # {})

====
